---- MODULE Spec2Model ----
(***************************************************************************)
(* Synthetic blood-test generator (simulateData): generateBloodTest,       *)
(* generateBloodTestSeries and determinePatientAbnormality                 *)
(* (bloodTestGenerator.ts), generatePatient (patientGenerator.ts),         *)
(* generateId (utils.ts), CONFIG and generateDataset (index.ts) and main   *)
(* (cli.ts); and the results store of the UI (ui/stores/results.ts).       *)
(*                                                                         *)
(* Specifications: SpecTest (one generateBloodTest call), SpecSeries       *)
(* (generateBloodTestSeries), SpecLongSeries (the same with longer         *)
(* series), SpecLabel (determinePatientAbnormality), SpecPatient           *)
(* (generatePatient and a test of that patient), SpecDataset (a process    *)
(* started as cli.ts, as index.ts or by an importing caller), SpecRuns     *)
(* (index.ts run twice on the same random draws), SpecHeap (the objects    *)
(* behind referenceRanges) and SpecStore (the results store).              *)
(*                                                                         *)
(* Numbers.  Every JavaScript number of the generator is kept as an        *)
(* integer count of ten-thousandths (1.0 is Unit, 0.01 is Cent).  Values   *)
(* stored in a test have two decimals, a trend product prev * 1.05 has     *)
(* four, so the products of the trend are exact in this unit.              *)
(* Math.random() is the fraction k / RandDen, k in 0 .. RandDen - 1.       *)
(***************************************************************************)
EXTENDS Integers, Sequences, FiniteSets, TLC

VARIABLES
    patient,             \* the Patient the functions are called for
    count,               \* generateBloodTestSeries: parameter count
    abnormalProbability, \* generateBloodTestSeries: parameter (hundredths)
    dates,               \* generateBloodTestSeries: local dates (sorted)
    hasAbnormalTrend,    \* generateBloodTestSeries: local
    abnormalMetric,      \* generateBloodTestSeries: local (NoMetric for null)
    i,                   \* generateBloodTestSeries: loop index
    baseValues,          \* the partial seed map (Partial<BloodTest>)
    tests,               \* the BloodTest list built / returned / labelled
    directions,          \* the value of `direction` drawn at each step i > 0
    rnd,                 \* the Math.random() draws of the last call
    env,                 \* process.env.ABNORMAL_PROBABILITY
    labelRand,           \* the Math.random() draw of the last labelling
    result,              \* last return value of determinePatientAbnormality
    pc,                  \* position of the running function
    mode,                \* how the generator is started: cli.ts, index.ts, import
    argv,                \* the options given (cli.ts) or set by the caller (import)
    processEnv,          \* process.env, all but ABNORMAL_PROBABILITY
    CONFIG,              \* index.ts: the module-level CONFIG
    exitCode,            \* "running", or the exit code of the process
    stderr,              \* what console.error has printed
    fs,                  \* the directories made and the files written
    patients,            \* generateDataset: local patients
    patientDataList,     \* generateDataset: local patientDataList
    calls,               \* the arguments of the calls made for each patient
    clock,               \* the day new Date() reads
    drawLog,             \* the Math.random() draws of the run so far
    previous,            \* the files of the run before this one, if any
    heap,                \* the reference range objects: tables and ranges
    held,                \* the tests returned, each with its referenceRanges
    isLoading,           \* results store: $isLoading
    error,               \* results store: $error ("null" for null)
    predictionResults,   \* results store: $predictionResults ("null" for null)
    modelInfo,           \* results store: $modelInfo ("null" for null)
    pending,             \* the calls of each effect that have not settled
    page                 \* the route the router shows

vars == <<patient, count, abnormalProbability, dates, hasAbnormalTrend,
          abnormalMetric, i, baseValues, tests, directions, rnd, env,
          labelRand, result, pc, mode, argv, processEnv, CONFIG, exitCode,
          stderr, fs, patients, patientDataList, calls, clock, drawLog,
          previous, heap, held, isLoading, error, predictionResults,
          modelInfo, pending, page>>

\* the objects of the reference ranges, and the results store of the UI
heapVars == <<heap, held>>
storeVars == <<isLoading, error, predictionResults, modelInfo, pending, page>>

\* the state of the functions of bloodTestGenerator.ts and of a run of the
\* process around them
functionVars == <<patient, count, abnormalProbability, dates, hasAbnormalTrend,
                  abnormalMetric, i, baseValues, tests, directions, rnd,
                  labelRand, result>>
runVars == <<mode, argv, processEnv, CONFIG, exitCode, stderr, fs, patients,
             patientDataList, calls, clock, drawLog, previous>>

\* what an action of the process leaves alone, and what a call of one
\* function leaves alone
generatorVars == <<functionVars, heapVars, storeVars>>
processVars == <<runVars, heapVars, storeVars>>

----------------------------------------------------------------------------
(* Bounds of the model *)

RandDen == 4
MaxVaried == 2
MaxSeeded == 3
MaxCount == 5
MaxTests == 4

----------------------------------------------------------------------------
(* Number representation *)

Unit == 100 * 100
Cent == 10 * 10
D1(n) == n * 1000          \* a literal with one decimal: 13.5 is D1(135)
D0(n) == n * Unit          \* an integer literal

Min(a, b) == IF a <= b THEN a ELSE b
Max(a, b) == IF a >= b THEN a ELSE b

Fractions == 0 .. (RandDen - 1)
MidFraction == RandDen \div 2

\* Math.random() * (max - min) + min, for the draw k / RandDen
randomInRange(min, max, k) == ((k * (max - min)) \div RandDen) + min

\* Math.random() < probability, probability in hundredths
randomBoolean(probability, k) == k * 100 < probability * RandDen

\* Number(num.toFixed(2)): nearest hundredth, a tie goes to the larger one
formatNumber(num) == ((num + (Cent \div 2)) \div Cent) * Cent

\* Math.round(x): nearest integer, a tie goes up
MathRound(x) == ((x + (Unit \div 2)) \div Unit) * Unit

----------------------------------------------------------------------------
(* Metrics and reference ranges *)

\* a variant of the list of trend targets with monocytes in the last place
TrendMetricsWithMonocytes ==
    <<"hemoglobin", "wbc", "rbc", "platelets", "hematocrit",
      "mcv", "mch", "mchc", "neutrophils", "monocytes">>

\* `const metrics = [...]`: the metrics a trend can target
TrendMetrics == <<"hemoglobin", "wbc", "rbc", "platelets", "hematocrit",
                  "mcv", "mch", "mchc", "neutrophils", "lymphocytes">>

MetricSet == {"hemoglobin", "wbc", "rbc", "platelets", "hematocrit", "mcv",
              "mch", "mchc", "neutrophils", "lymphocytes", "monocytes",
              "eosinophils", "basophils"}

\* a variant of the confidence computation that also reads rbc
ConfidenceMetricsWithRbc == <<"hemoglobin", "wbc", "rbc", "platelets", "hematocrit">>

\* the metrics whose flags the confidence computation of generateBloodTest reads
ConfidenceMetrics == <<"hemoglobin", "wbc", "platelets", "hematocrit">>

Rg(lo, hi) == [min |-> lo, max |-> hi]

maleReferenceRanges ==
    [hemoglobin  |-> Rg(D1(135), D1(175)),
     wbc         |-> Rg(D1(45), D1(110)),
     rbc         |-> Rg(D1(45), D1(59)),
     platelets   |-> Rg(D0(150), D0(450)),
     hematocrit  |-> Rg(D0(41), D0(50)),
     mcv         |-> Rg(D0(80), D0(100)),
     mch         |-> Rg(D0(27), D0(33)),
     mchc        |-> Rg(D0(32), D0(36)),
     neutrophils |-> Rg(D0(40), D0(60)),
     lymphocytes |-> Rg(D0(20), D0(40)),
     monocytes   |-> Rg(D0(2), D0(8)),
     eosinophils |-> Rg(D0(1), D0(4)),
     basophils   |-> Rg(D1(5), D0(1))]

femaleReferenceRanges ==
    [hemoglobin  |-> Rg(D1(120), D1(155)),
     wbc         |-> Rg(D1(45), D1(110)),
     rbc         |-> Rg(D1(40), D1(52)),
     platelets   |-> Rg(D0(150), D0(450)),
     hematocrit  |-> Rg(D0(36), D0(44)),
     mcv         |-> Rg(D0(80), D0(100)),
     mch         |-> Rg(D0(27), D0(33)),
     mchc        |-> Rg(D0(32), D0(36)),
     neutrophils |-> Rg(D0(40), D0(60)),
     lymphocytes |-> Rg(D0(20), D0(40)),
     monocytes   |-> Rg(D0(2), D0(8)),
     eosinophils |-> Rg(D0(1), D0(4)),
     basophils   |-> Rg(D1(5), D0(1))]

\* a variant of getReferenceRanges that already adjusts at age 65
getReferenceRangesFrom65(p) ==
    LET baseRanges == IF p.gender = "M" THEN maleReferenceRanges
                                        ELSE femaleReferenceRanges
    IN  IF p.age >= 65
        THEN [baseRanges EXCEPT
                !.hemoglobin = Rg(baseRanges.hemoglobin.min - D1(5),
                                  baseRanges.hemoglobin.max - D1(5)),
                !.wbc = Rg(baseRanges.wbc.min, baseRanges.wbc.max - D1(5))]
        ELSE baseRanges

\* getReferenceRanges(patient)
getReferenceRanges(p) ==
    LET baseRanges == IF p.gender = "M" THEN maleReferenceRanges
                                        ELSE femaleReferenceRanges
    IN  IF p.age > 65
        THEN [baseRanges EXCEPT
                !.hemoglobin = Rg(baseRanges.hemoglobin.min - D1(5),
                                  baseRanges.hemoglobin.max - D1(5)),
                !.wbc = Rg(baseRanges.wbc.min, baseRanges.wbc.max - D1(5))]
        ELSE baseRanges

\* The padding of the random draw of each metric in generateBloodTest:
\* randomInRange(range.min - lo, range.max + hi)
DrawPad ==
    [hemoglobin  |-> [lo |-> D0(2), hi |-> D0(2)],
     wbc         |-> [lo |-> D0(2), hi |-> D0(3)],
     rbc         |-> [lo |-> D0(1), hi |-> D0(1)],
     platelets   |-> [lo |-> D0(50), hi |-> D0(100)],
     hematocrit  |-> [lo |-> D0(5), hi |-> D0(5)],
     mcv         |-> [lo |-> D0(10), hi |-> D0(10)],
     mch         |-> [lo |-> D0(5), hi |-> D0(5)],
     mchc        |-> [lo |-> D0(4), hi |-> D0(4)],
     neutrophils |-> [lo |-> D0(10), hi |-> D0(15)],
     lymphocytes |-> [lo |-> D0(5), hi |-> D0(10)],
     monocytes   |-> [lo |-> D0(1), hi |-> D0(3)],
     eosinophils |-> [lo |-> D1(5), hi |-> D0(2)],
     basophils   |-> [lo |-> D1(2), hi |-> D1(5)]]

----------------------------------------------------------------------------
(* Exact fractions for the confidence arithmetic: [n, d] is n / d, d > 0 *)

RECURSIVE Gcd(_, _)
Gcd(a, b) == IF b = 0 THEN a ELSE Gcd(b, a % b)

Lcm(a, b) == (a \div Gcd(a, b)) * b

Frac(n, d) == LET g == Gcd(n, d) IN [n |-> n \div g, d |-> d \div g]

FracZero == Frac(0, 1)

FracAdd(a, b) ==
    LET l == Lcm(a.d, b.d)
    IN  Frac(a.n * (l \div a.d) + b.n * (l \div b.d), l)

\* formatNumber(f / k) for a fraction 0 <= f / k <= 1: the quotient to two
\* decimals by long division, the tie going up as in formatNumber
formatQuotient(f, k) ==
    LET d  == f.d * k
        q0 == f.n \div d
        r0 == f.n % d
        t1 == (10 * r0) \div d
        r1 == (10 * r0) % d
        t2 == (10 * r1) \div d
        r2 == (10 * r1) % d
        up == IF 2 * r2 >= d THEN 1 ELSE 0
    IN  (100 * q0 + 10 * t1 + t2 + up) * Cent

----------------------------------------------------------------------------
(* bloodTestGenerator.ts: one blood test *)

\* a variant of checkIsAbnormal that also flags the two ends of the range
checkIsAbnormalClosed(value, range) == value <= range.min \/ value >= range.max

\* checkIsAbnormal(value, range)
checkIsAbnormal(value, range) == value < range.min \/ value > range.max

\* a variant of calculateAbnormalConfidence without the floor of 0.5
calculateAbnormalConfidenceNoFloor(value, range) ==
    IF value >= range.min /\ value <= range.max
    THEN FracZero
    ELSE LET rangeWidth == range.max - range.min
             distance   == IF value < range.min THEN range.min - value
                                                ELSE value - range.max
         IN  IF distance >= rangeWidth
             THEN Frac(1, 1)
             ELSE Frac(distance, rangeWidth)

\* calculateAbnormalConfidence(value, range), as an exact fraction:
\* Math.min(0.5 + distanceFromRange, 1.0), 0 inside the range
calculateAbnormalConfidence(value, range) ==
    IF value >= range.min /\ value <= range.max
    THEN FracZero
    ELSE LET rangeWidth == range.max - range.min
             distance   == IF value < range.min THEN range.min - value
                                                ELSE value - range.max
         IN  IF 2 * distance >= rangeWidth
             THEN Frac(1, 1)
             ELSE Frac(rangeWidth + 2 * distance, 2 * rangeWidth)

\* `baseValues?.metric || randomInRange(...)`: the left operand is used when
\* it is truthy; undefined (no entry) and 0 are falsy
Truthy(bv, m) == m \in DOMAIN bv /\ bv[m] # 0

\* the metrics for which generateBloodTest calls Math.random()
Drawn(bv) == {m \in MetricSet : ~Truthy(bv, m)}

\* a variant of the threshold that needs more than two flags
overallAbnormalAboveTwo(abnormalCount) == abnormalCount > 2

\* `const isAbnormal = abnormalCount >= 2`
overallAbnormal(abnormalCount) == abnormalCount >= 2

RECURSIVE SumConfidence(_, _, _, _)
\* the four `if (abnormalFlags.m) { confidenceSum += ...; confidenceCount++ }`
SumConfidence(ms, value, ranges, flags) ==
    IF ms = <<>>
    THEN [sum |-> FracZero, cnt |-> 0]
    ELSE LET rest == SumConfidence(Tail(ms), value, ranges, flags)
             m    == Head(ms)
         IN  IF flags[m]
             THEN [sum |-> FracAdd(calculateAbnormalConfidence(value[m], ranges[m]),
                                   rest.sum),
                   cnt |-> rest.cnt + 1]
             ELSE rest

\* a variant of the average that divides by the number of metrics read
averageConfidenceOverAll(confidenceSum, confidenceCount) ==
    IF confidenceCount > 0
    THEN formatQuotient(confidenceSum, Len(ConfidenceMetrics))
    ELSE 0

\* `confidenceCount > 0 ? formatNumber(confidenceSum / confidenceCount) : 0`
averageConfidence(confidenceSum, confidenceCount) ==
    IF confidenceCount > 0
    THEN formatQuotient(confidenceSum, confidenceCount)
    ELSE 0

\* generateBloodTest(patient, testDate, baseValues); draws[m] is the
\* Math.random() draw of metric m, read only for the metrics of Drawn(bv)
generateBloodTest(p, testDate, bv, draws) ==
    LET referenceRanges == getReferenceRanges(p)
        raw(m) == IF Truthy(bv, m)
                  THEN bv[m]
                  ELSE randomInRange(referenceRanges[m].min - DrawPad[m].lo,
                                     referenceRanges[m].max + DrawPad[m].hi,
                                     draws[m])
        value == [m \in MetricSet |->
                    IF m = "platelets" THEN MathRound(raw(m))
                                       ELSE formatNumber(raw(m))]
        flags == [m \in MetricSet |-> checkIsAbnormal(value[m], referenceRanges[m])]
        abnormalCount == Cardinality({m \in MetricSet : flags[m]})
        conf == SumConfidence(ConfidenceMetrics, value, referenceRanges, flags)
    IN  value @@
        [patientId |-> p.patientId,
         testDate |-> testDate,
         referenceRanges |-> referenceRanges,
         abnormalFlags |->
             flags @@ [isAbnormal |-> overallAbnormal(abnormalCount),
                       abnormalConfidence |-> averageConfidence(conf.sum, conf.cnt)]]

----------------------------------------------------------------------------
(* Bounded inputs *)

Patients ==
    {[patientId |-> "P-m65", age |-> 65, gender |-> "M"],
     [patientId |-> "P-m66", age |-> 66, gender |-> "M"],
     [patientId |-> "P-f65", age |-> 65, gender |-> "F"],
     [patientId |-> "P-f66", age |-> 66, gender |-> "F"]}

SmallSubsets(S, n) == {V \in SUBSET S : Cardinality(V) <= n}

\* draw vectors over S in which at most n draws differ from the middle one
DrawVectors(S, n) ==
    UNION {{[m \in S |-> IF m \in V THEN g[m] ELSE MidFraction] :
               g \in [V -> Fractions \ {MidFraction}]} :
           V \in SmallSubsets(S, n)}

\* seed values tried for metric m of patient p: kind 0 is the number zero,
\* kind 1 a value below the range that has more than two decimals
SeedKinds == {0, 1}
SeedValue(p, m, kind) ==
    IF kind = 0
    THEN 0
    ELSE getReferenceRanges(p)[m].min - (DrawPad[m].lo \div 3)

\* seed maps (Partial<BloodTest>) that supply at most n metrics
SeedMaps(p, n) ==
    UNION {{[m \in V |-> SeedValue(p, m, g[m])] : g \in [V -> SeedKinds]} :
           V \in SmallSubsets(MetricSet, n)}

NoMetric == "null"
NoResult == [label |-> "none", confidence |-> 0]
EmptyMap == [m \in {} |-> 0]
\* process.env.ABNORMAL_PROBABILITY: not set, or the text of a number (in
\* hundredths)
Unset == [defined |-> FALSE, value |-> 0]
EnvText(v) == [defined |-> TRUE, value |-> v]

\* process.env and the options: every entry is Unset or the text of a value
UnsetText == [defined |-> FALSE, value |-> ""]
NoEnv == [PATIENT_COUNT |-> Unset, MIN_TESTS |-> Unset, MAX_TESTS |-> Unset,
          TIME_RANGE |-> Unset, OUTPUT_DIR |-> UnsetText,
          GENERATE_SUMMARY |-> UnsetText]
NoArgv == [patients |-> Unset, minTests |-> Unset, maxTests |-> Unset,
           months |-> Unset, abnormal |-> Unset, output |-> UnsetText,
           help |-> FALSE]
NoConfig == [patientCount |-> 0, testsPerPatient |-> [min |-> 0, max |-> 0],
             timeRange |-> 0, abnormalProbability |-> 0, outputDir |-> "",
             generateSummary |-> FALSE]
NoFiles == [dirs |-> {}, files |-> EmptyMap]
NoDraws == [patients |-> <<>>, data |-> <<>>]
NoRun == [ran |-> FALSE, files |-> EmptyMap, clock |-> 0]

\* no test object is held
NoHeap == [tables |-> <<>>, ranges |-> EmptyMap]
HeapIdle ==
    /\ heap = NoHeap
    /\ held = <<>>

\* the UI is not running
NoPending == [submitTestFx |-> 0, getModelInfoFx |-> 0]
StoreIdle ==
    /\ isLoading = FALSE
    /\ error = "null"
    /\ predictionResults = "null"
    /\ modelInfo = "null"
    /\ pending = NoPending
    /\ page = "none"

\* no run of the process
RunIdle ==
    /\ mode = "none"
    /\ argv = NoArgv
    /\ processEnv = NoEnv
    /\ CONFIG = NoConfig
    /\ exitCode = "running"
    /\ stderr = <<>>
    /\ fs = NoFiles
    /\ patients = <<>>
    /\ patientDataList = <<>>
    /\ calls = <<>>
    /\ clock = 0
    /\ drawLog = NoDraws
    /\ previous = NoRun

\* no process around the function that is called
ProcessIdle == RunIdle /\ HeapIdle /\ StoreIdle

----------------------------------------------------------------------------
(* generateBloodTest called once, on bounded inputs *)

Idle ==
    /\ ProcessIdle
    /\ count = 0
    /\ abnormalProbability = 30
    /\ dates = <<>>
    /\ hasAbnormalTrend = FALSE
    /\ abnormalMetric = NoMetric
    /\ i = 0
    /\ baseValues = EmptyMap
    /\ tests = <<>>
    /\ directions = <<>>
    /\ rnd = EmptyMap
    /\ env = Unset
    /\ labelRand = 0
    /\ result = NoResult

TestInit ==
    /\ Idle
    /\ patient \in Patients
    /\ pc = "call"

\* generateBloodTest(patient, testDate): no seed, thirteen random draws
GenerateFresh ==
    /\ pc = "call"
    /\ \E draws \in DrawVectors(MetricSet, MaxVaried) :
          /\ tests' = <<generateBloodTest(patient, 0, EmptyMap, draws)>>
          /\ rnd' = draws
    /\ baseValues' = EmptyMap
    /\ pc' = "returned"
    /\ UNCHANGED processVars
    /\ UNCHANGED <<patient, count, abnormalProbability, dates, hasAbnormalTrend,
                   abnormalMetric, i, directions, env, labelRand, result>>

\* generateBloodTest(patient, testDate, baseValues): some metrics seeded
GenerateSeeded ==
    /\ pc = "call"
    /\ \E bv \in SeedMaps(patient, MaxSeeded) :
       \E draws \in DrawVectors(Drawn(bv), 0) :
          /\ tests' = <<generateBloodTest(patient, 0, bv, draws)>>
          /\ rnd' = draws
          /\ baseValues' = bv
    /\ pc' = "returned"
    /\ UNCHANGED processVars
    /\ UNCHANGED <<patient, count, abnormalProbability, dates, hasAbnormalTrend,
                   abnormalMetric, i, directions, env, labelRand, result>>

TestNext == GenerateFresh \/ GenerateSeeded

SpecTest == TestInit /\ [][TestNext]_vars

----------------------------------------------------------------------------
(* bloodTestGenerator.ts: generateBloodTestSeries *)

\* monthsRange: the default of the parameter
monthsRange == 6

\* randomDateInPastMonths(months) for the draw k / RandDen, as the number of
\* days after the start of the period (a month counted as 30 days); the ISO
\* date strings of the code compare as these numbers do
randomDateInPastMonths(months, k) == (k * months * 30) \div RandDen

\* the draws tried for the dates: the start and the middle of the period
DateDraws == {0, MidFraction}

RECURSIVE Insert(_, _)
Insert(x, sorted) ==
    IF sorted = <<>> THEN <<x>>
    ELSE IF x <= Head(sorted) THEN <<x>> \o sorted
    ELSE <<Head(sorted)>> \o Insert(x, Tail(sorted))

RECURSIVE SortAscending(_)
SortAscending(ds) ==
    IF ds = <<>> THEN <<>> ELSE Insert(Head(ds), SortAscending(Tail(ds)))

\* a variant that leaves the dates in the order they were drawn
datesAsDrawn(ds) == ds

\* `dates.sort()`
sortDates(ds) == SortAscending(ds)

\* the draws of test 0: one fraction shared by the metrics that are drawn
SeriesDraws(S) == {[m \in S |-> k] : k \in Fractions}

\* `range.max * 1.1` and `range.min * 0.9` in IEEE-754 double arithmetic.
\* For the ranges below the double product lies one unit in the last place
\* above the two-decimal number (11 * 1.1 is 12.100000000000001,
\* 13 * 0.9 is 11.700000000000001); for all the other ranges of the tables it
\* is the double of the two-decimal number.  1 stands for that excess: it is
\* smaller than every rounding step of the unit.
RoundsUpTimes1_1 == {D0(17), D0(11), D1(59), D1(52), D0(450), D0(50), D0(44),
                     D0(100), D0(33)}
RoundsUpTimes0_9 == {D0(13)}
Times1_1(x) == (x * 11) \div 10 + (IF x \in RoundsUpTimes1_1 THEN 1 ELSE 0)
Times0_9(x) == (x * 9) \div 10 + (IF x \in RoundsUpTimes0_9 THEN 1 ELSE 0)

\* a variant of the trend factor that keeps growing after step 3
trendFactorUncapped(step) == 5 * step

\* `0.05 * Math.min(i, 3)`, in hundredths
trendFactor(step) == 5 * Min(step, 3)

\* a variant of trendValue without the two `if (i >= count - 2)` clamps
trendValueNoClamp(prevValue, direction, step, cnt, range) ==
    IF direction > 0
    THEN (prevValue * (100 + trendFactor(step))) \div 100
    ELSE (prevValue * (100 - trendFactor(step))) \div 100

\* newValue of the loop body, for loop index step (0-based, as in the code)
trendValue(prevValue, direction, step, cnt, range) ==
    IF direction > 0
    THEN LET up == (prevValue * (100 + trendFactor(step))) \div 100
         IN  IF step >= cnt - 2 THEN Max(up, Times1_1(range.max)) ELSE up
    ELSE LET down == (prevValue * (100 - trendFactor(step))) \div 100
         IN  IF step >= cnt - 2 THEN Min(down, Times0_9(range.min)) ELSE down

\* a variant of the copy that leaves out one metric
nextBaseValuesWithoutMchc(test) == [m \in MetricSet \ {"mchc"} |-> test[m]]

\* `baseValues = { hemoglobin: test.hemoglobin, ... }` after each test
nextBaseValues(test) == [m \in MetricSet |-> test[m]]

\* `randomBoolean() ? 1 : -1`
drawDirection(k) == IF randomBoolean(50, k) THEN 1 ELSE -1

SeriesInit ==
    /\ ProcessIdle
    /\ patient \in Patients
    /\ count \in 1 .. MaxCount
    /\ abnormalProbability = 30
    /\ dates = <<>>
    /\ hasAbnormalTrend = FALSE
    /\ abnormalMetric = NoMetric
    /\ i = 0
    /\ baseValues = EmptyMap
    /\ tests = <<>>
    /\ directions = <<>>
    /\ rnd = EmptyMap
    /\ env = Unset
    /\ labelRand = 0
    /\ result = NoResult
    /\ pc = "series"

\* lines 679-705: the dates are drawn and sorted, the trend and its metric
\* are decided
SeriesBegin ==
    /\ pc = "series"
    /\ \E dd \in [1 .. count -> DateDraws] :
          dates' = sortDates([n \in 1 .. count |->
                                 randomDateInPastMonths(monthsRange, dd[n])])
    /\ \E kt \in Fractions :
          /\ hasAbnormalTrend' = randomBoolean(abnormalProbability, kt)
          /\ IF hasAbnormalTrend'
             THEN \E idx \in 1 .. Len(TrendMetrics) :
                     abnormalMetric' = TrendMetrics[idx]
             ELSE abnormalMetric' = NoMetric
    /\ baseValues' = EmptyMap
    /\ tests' = <<>>
    /\ i' = 0
    /\ pc' = "loop"
    /\ UNCHANGED processVars
    /\ UNCHANGED <<patient, count, abnormalProbability, directions, rnd, env,
                   labelRand, result>>

\* one iteration of the loop of lines 708-767 that moves the trending metric
SeriesStepTrend ==
    /\ pc = "loop"
    /\ i < count
    /\ hasAbnormalTrend /\ abnormalMetric # NoMetric /\ i > 0
    /\ \E kd \in Fractions :
          LET referenceRanges == getReferenceRanges(patient)
              range     == referenceRanges[abnormalMetric]
              direction == drawDirection(kd)
              prevValue == tests[i][abnormalMetric]
              newValue  == trendValue(prevValue, direction, i, count, range)
              bv   == [baseValues EXCEPT ![abnormalMetric] = formatNumber(newValue)]
          IN  \E draws \in SeriesDraws(Drawn(bv)) :
                 LET test == generateBloodTest(patient, dates[i + 1], bv, draws)
                 IN  /\ tests' = Append(tests, test)
                     /\ baseValues' = nextBaseValues(test)
                     /\ rnd' = draws
                     /\ directions' = Append(directions, direction)
    /\ i' = i + 1
    /\ UNCHANGED processVars
    /\ UNCHANGED <<patient, count, abnormalProbability, dates, hasAbnormalTrend,
                   abnormalMetric, env, labelRand, result, pc>>

\* one iteration of the loop that skips the trend block: test 0, and every
\* test of a series without trend
SeriesStepPlain ==
    /\ pc = "loop"
    /\ i < count
    /\ ~(hasAbnormalTrend /\ abnormalMetric # NoMetric /\ i > 0)
    /\ \E draws \in SeriesDraws(Drawn(baseValues)) :
          LET test == generateBloodTest(patient, dates[i + 1], baseValues, draws)
          IN  /\ tests' = Append(tests, test)
              /\ baseValues' = nextBaseValues(test)
              /\ rnd' = draws
    /\ i' = i + 1
    /\ UNCHANGED processVars
    /\ UNCHANGED <<patient, count, abnormalProbability, dates, hasAbnormalTrend,
                   abnormalMetric, directions, env, labelRand, result, pc>>

\* `return tests`
SeriesReturn ==
    /\ pc = "loop"
    /\ i = count
    /\ pc' = "returned"
    /\ UNCHANGED processVars
    /\ UNCHANGED <<patient, count, abnormalProbability, dates, hasAbnormalTrend,
                   abnormalMetric, i, baseValues, tests, directions, rnd, env,
                   labelRand, result>>

SeriesNext == SeriesBegin \/ SeriesStepTrend \/ SeriesStepPlain \/ SeriesReturn

SpecSeries == SeriesInit /\ [][SeriesNext]_vars

\* the same function called for up to two more tests, for a man over 65 and
\* a woman of 65: series long enough for steps beyond i = 3 that the final
\* clamp does not touch
LongPatients == {p \in Patients : (p.gender = "M") <=> (p.age > 65)}

LongSeriesInit ==
    /\ ProcessIdle
    /\ patient \in LongPatients
    /\ count \in 1 .. (MaxCount + 2)
    /\ abnormalProbability = 30
    /\ dates = <<>>
    /\ hasAbnormalTrend = FALSE
    /\ abnormalMetric = NoMetric
    /\ i = 0
    /\ baseValues = EmptyMap
    /\ tests = <<>>
    /\ directions = <<>>
    /\ rnd = EmptyMap
    /\ env = Unset
    /\ labelRand = 0
    /\ result = NoResult
    /\ pc = "series"

SpecLongSeries == LongSeriesInit /\ [][SeriesNext]_vars

----------------------------------------------------------------------------
(* bloodTestGenerator.ts: determinePatientAbnormality *)

\* a variant of the comparison in which the ratio of an empty list passes
ratioAtLeast30PercentOrEmpty(abnormal, total) == 10 * abnormal >= 3 * total

\* `abnormalRatio >= 0.3` for abnormalRatio = abnormal / total; 0 / 0 is NaN
\* and every comparison with NaN is false
ratioAtLeast30Percent(abnormal, total) == total > 0 /\ 10 * abnormal >= 3 * total

RECURSIVE SumOfConfidence(_)
SumOfConfidence(ts) ==
    IF ts = <<>> THEN 0
    ELSE Head(ts).abnormalFlags.abnormalConfidence + SumOfConfidence(Tail(ts))

\* a variant of formatRatio that cuts the quotient off after two decimals
formatRatioTruncated(total, n) == (total \div (n * Cent)) * Cent

\* formatNumber(total / n), n > 0
formatRatio(total, n) == ((2 * total + n * Cent) \div (2 * n * Cent)) * Cent

\* a variant of hasAbnormalTests that already fires at confidence 0.8
hasAbnormalTestsFrom80(ts) ==
    LET abnormalTests == SelectSeq(ts, LAMBDA t : t.abnormalFlags.isAbnormal)
    IN  \/ ratioAtLeast30Percent(Len(abnormalTests), Len(ts))
        \/ \E n \in DOMAIN ts : ts[n].abnormalFlags.abnormalConfidence >= 80 * Cent

\* `abnormalRatio >= 0.3 || tests.some(test => ...abnormalConfidence > 0.8)`
hasAbnormalTests(ts) ==
    LET abnormalTests == SelectSeq(ts, LAMBDA t : t.abnormalFlags.isAbnormal)
    IN  \/ ratioAtLeast30Percent(Len(abnormalTests), Len(ts))
        \/ \E n \in DOMAIN ts : ts[n].abnormalFlags.abnormalConfidence > 80 * Cent

\* `parseFloat(process.env.ABNORMAL_PROBABILITY || '0.3')`, in hundredths
envAbnormalProbability(e) == IF e.defined THEN e.value ELSE 30

\* determinePatientAbnormality(tests), for the draw k / RandDen of its
\* Math.random()
determinePatientAbnormality(ts, e, k) ==
    LET abnormalTests   == SelectSeq(ts, LAMBDA t : t.abnormalFlags.isAbnormal)
        totalConfidence == SumOfConfidence(abnormalTests)
        avgConfidence   == IF Len(abnormalTests) > 0
                           THEN formatRatio(totalConfidence, Len(abnormalTests))
                           ELSE 0
        isAbnormal      == hasAbnormalTests(ts)
                           /\ randomBoolean(envAbnormalProbability(e), k)
    IN  [label |-> IF isAbnormal THEN "ABNORMAL" ELSE "NORMAL",
         confidence |-> IF isAbnormal THEN avgConfidence ELSE Unit - avgConfidence]

\* the tests handed to the labelling: what it reads of a BloodTest
LabelTests ==
    {[abnormalFlags |-> [isAbnormal |-> a, abnormalConfidence |-> c * Cent]] :
        a \in BOOLEAN, c \in {0, 80, 81}}

LabelInputs == UNION {[1 .. n -> LabelTests] : n \in 0 .. MaxTests}

EnvChoices == {Unset, EnvText(0), EnvText(50), EnvText(100)}

LabelInit ==
    /\ ProcessIdle
    /\ patient \in {p \in Patients : p.age = 65 /\ p.gender = "M"}
    /\ count = 0
    /\ abnormalProbability = 30
    /\ dates = <<>>
    /\ hasAbnormalTrend = FALSE
    /\ abnormalMetric = NoMetric
    /\ i = 0
    /\ baseValues = EmptyMap
    /\ tests \in LabelInputs
    /\ directions = <<>>
    /\ rnd = EmptyMap
    /\ env \in EnvChoices
    /\ labelRand = 0
    /\ result = NoResult
    /\ pc = "label"

DeterminePatientAbnormality ==
    /\ pc = "label"
    /\ \E k \in Fractions :
          /\ result' = determinePatientAbnormality(tests, env, k)
          /\ labelRand' = k
    /\ pc' = "labelled"
    /\ UNCHANGED processVars
    /\ UNCHANGED <<patient, count, abnormalProbability, dates, hasAbnormalTrend,
                   abnormalMetric, i, baseValues, tests, directions, rnd, env>>

LabelNext == DeterminePatientAbnormality

SpecLabel == LabelInit /\ [][LabelNext]_vars

----------------------------------------------------------------------------
(* utils.ts: randomIntInRange, generateId; patientGenerator.ts *)

\* The draws of generatePatient are finer than those of the blood tests:
\* Math.random() is f / PerMille, tried at 0, one half and 0.999
PerMille == 10 * Cent
PatientFractions == {0, PerMille \div 2, PerMille - 1}

\* randomIntInRange(min, max) for integer bounds (Math.ceil and Math.floor
\* leave them) and the draw f / PerMille
randomIntInRange(min, max, f) == ((f * (max - min + 1)) \div PerMille) + min

\* randomBoolean(probability) for the draw f / PerMille, probability in
\* hundredths
randomBooleanOf(probability, f) == f * 100 < probability * PerMille

\* the digits of Number.prototype.toString(36)
Digit36 == <<"0", "1", "2", "3", "4", "5", "6", "7", "8", "9", "a", "b", "c",
             "d", "e", "f", "g", "h", "i", "j", "k", "l", "m", "n", "o", "p",
             "q", "r", "s", "t", "u", "v", "w", "x", "y", "z">>

\* toString(36) prints a double with the digits that tell it from its
\* neighbours: 53 significant bits, a base-36 digit carrying a little over 5
SignificantDigits36 == (53 \div 5) + 1

\* the first n base-36 digits after the point of num / den; the expansion
\* stops where the fraction is exhausted, as toString(36) prints it
RECURSIVE fractionDigits36(_, _, _)
fractionDigits36(num, den, n) ==
    IF num = 0 \/ n = 0
    THEN ""
    ELSE Digit36[((num * 36) \div den) + 1]
            \o fractionDigits36((num * 36) % den, den, n - 1)

\* `Math.random().toString(36).substring(2, 2 + length)` for the draw
\* f / PerMille: toString(36) gives "0" for 0 and "0." and the digits
\* otherwise; substring drops the first two characters and keeps what there
\* is of the next `length`
randomPart(length, f) ==
    IF f = 0
    THEN ""
    ELSE fractionDigits36(f, PerMille, Min(length, SignificantDigits36))

\* a variant of generateId that mixes the day of the clock into the id
generateIdFromClock(prefix, length, f) ==
    prefix \o "-" \o randomPart(length, (f + clock) % PerMille)

\* generateId(prefix, length)
generateId(prefix, length, f) == prefix \o "-" \o randomPart(length, f)

commonMedicalConditions ==
    <<"Hypertension", "Type 2 Diabetes", "Asthma", "Hypothyroidism",
      "Hyperlipidemia", "GERD", "Osteoarthritis", "Depression", "Anxiety",
      "Obesity", "Chronic Kidney Disease", "COPD", "Atrial Fibrillation",
      "Coronary Artery Disease", "Migraine", "Rheumatoid Arthritis",
      "Osteoporosis", "Anemia", "Sleep Apnea", "None">>

\* a variant of splice that leaves the chosen condition available
spliceNothing(available, index) == available

\* availableConditions.splice(index, 1), index counted from 0
splice(available, index) ==
    SubSeq(available, 1, index) \o SubSeq(available, index + 2, Len(available))

\* the loop of generateMedicalHistory from iteration it on; idx[it + 1] is
\* the draw of iteration it
RECURSIVE historyLoop(_, _, _, _, _)
historyLoop(it, conditionCount, history, availableConditions, idx) ==
    IF it >= conditionCount \/ Len(availableConditions) = 0
    THEN history
    ELSE LET index == randomIntInRange(0, Len(availableConditions) - 1,
                                       idx[it + 1])
             condition == availableConditions[index + 1]
         IN  IF condition # "None"
             THEN historyLoop(it + 1, conditionCount,
                              Append(history, condition),
                              splice(availableConditions, index), idx)
             ELSE historyLoop(it + 1, conditionCount, history,
                              availableConditions, idx)

\* conditionCount of generateMedicalHistory(age) for the draw kc
conditionCountOf(age, kc) == Min(randomIntInRange(0, age \div 15, kc), 5)

\* generateMedicalHistory(age)
generateMedicalHistory(age, kc, idx) ==
    LET history == historyLoop(0, conditionCountOf(age, kc), <<>>,
                               commonMedicalConditions, idx)
    IN  IF Len(history) = 0 THEN <<"None">> ELSE history

\* generatePatient(), d holding its draws in the order they are made:
\* gender, age, id, count and the indices of the history loop
generatePatient(d) ==
    LET gender == IF randomBooleanOf(50, d.gender) THEN "M" ELSE "F"
        age    == randomIntInRange(18, 85, d.age)
    IN  [patientId      |-> generateId("P", 8, d.id),
         age            |-> age,
         gender         |-> gender,
         medicalHistory |-> generateMedicalHistory(age, d.count, d.index)]

\* the draws of one generatePatient call: one index draw per iteration of
\* the history loop
PatientDraws ==
    UNION {{[gender |-> kg, age |-> ka, id |-> ki, count |-> kc, index |-> idx] :
               kg \in {0, PerMille - 1}, ki \in PatientFractions,
               idx \in [1 .. conditionCountOf(randomIntInRange(18, 85, ka), kc)
                           -> PatientFractions]} :
           ka \in PatientFractions, kc \in PatientFractions}

\* generateBloodTest with the testId it draws last (line 649)
generateBloodTestWithId(p, testDate, bv, draws, f) ==
    [testId |-> generateId("T", 10, f)]
        @@ generateBloodTest(p, testDate, bv, draws)

NoPatient == [patientId |-> "", age |-> 0, gender |-> "", medicalHistory |-> <<>>]

PatientInit ==
    /\ Idle
    /\ patient = NoPatient
    /\ pc = "generatePatient"

\* generatePatient()
GeneratePatient ==
    /\ pc = "generatePatient"
    /\ \E d \in PatientDraws :
          /\ patient' = generatePatient(d)
          /\ rnd' = d
    /\ pc' = "patient"
    /\ UNCHANGED processVars
    /\ UNCHANGED <<count, abnormalProbability, dates, hasAbnormalTrend,
                   abnormalMetric, i, baseValues, tests, directions, env,
                   labelRand, result>>

\* generateBloodTest(patient, testDate) for the generated patient, every
\* metric drawn at the middle of its interval
GenerateTestOfPatient ==
    /\ pc = "patient"
    /\ \E f \in PatientFractions :
          tests' = <<generateBloodTestWithId(patient, 0, EmptyMap,
                                            [m \in MetricSet |-> MidFraction], f)>>
    /\ pc' = "returned"
    /\ UNCHANGED processVars
    /\ UNCHANGED <<patient, count, abnormalProbability, dates, hasAbnormalTrend,
                   abnormalMetric, i, baseValues, directions, rnd, env,
                   labelRand, result>>

PatientNext == GeneratePatient \/ GenerateTestOfPatient

SpecPatient == PatientInit /\ [][PatientNext]_vars

----------------------------------------------------------------------------
(* index.ts (CONFIG, generateDataset) and cli.ts (main) *)

MaxPatients == 2

\* parseInt(process.env.X || fallback, 10) and parseFloat likewise: the text
\* of a number is never empty, so a variable that is set wins
envNumber(e, fallback) == IF e.defined THEN e.value ELSE fallback

\* index.ts, lines 18-34: CONFIG as the module body computes it from the
\* environment pe (and e for ABNORMAL_PROBABILITY) it finds when it is loaded
loadConfig(pe, e) ==
    [patientCount        |-> envNumber(pe.PATIENT_COUNT, 350),
     testsPerPatient     |-> [min |-> envNumber(pe.MIN_TESTS, 3),
                              max |-> envNumber(pe.MAX_TESTS, 8)],
     timeRange           |-> envNumber(pe.TIME_RANGE, 6),
     abnormalProbability |-> envNumber(e, 30),
     outputDir           |-> IF pe.OUTPUT_DIR.defined THEN pe.OUTPUT_DIR.value
                                                       ELSE "src/data",
     generateSummary     |-> ~(pe.GENERATE_SUMMARY.defined
                               /\ pe.GENERATE_SUMMARY.value = "false")]

\* cli.ts, parseArgs: the defaults, overwritten by the options given
parseArgs(av) ==
    [patients |-> envNumber(av.patients, 350),
     minTests |-> envNumber(av.minTests, 3),
     maxTests |-> envNumber(av.maxTests, 8),
     months   |-> envNumber(av.months, 6),
     abnormal |-> envNumber(av.abnormal, 30),
     output   |-> IF av.output.defined THEN av.output.value ELSE "./data",
     help     |-> av.help]

\* cli.ts, validateArgs: the message of the first check that fails, "" if
\* none does
validationError(args) ==
    IF args.patients < 1
    THEN "Error: Number of patients must be at least 1"
    ELSE IF args.minTests < 1
    THEN "Error: Minimum tests must be at least 1"
    ELSE IF args.maxTests < args.minTests
    THEN "Error: Maximum tests must be greater than or equal to minimum tests"
    ELSE IF args.months < 1
    THEN "Error: Time range must be at least 1 month"
    ELSE IF args.abnormal < 0 \/ args.abnormal > 100
    THEN "Error: Abnormal probability must be between 0 and 1"
    ELSE ""

\* a variant of validateArgs without the comparison of maxTests and minTests
validateArgsWithoutOrder(args) ==
    ~ \/ args.patients < 1
      \/ args.minTests < 1
      \/ args.months < 1
      \/ args.abnormal < 0 \/ args.abnormal > 100

\* cli.ts, validateArgs
validateArgs(args) == validationError(args) = ""

\* randomDateInPastMonths(months) read on day now: the day of the date
dateInPastMonths(now, months, k) ==
    (now - months * 30) + randomDateInPastMonths(months, k)

\* Math.random() = k / RandDen as a draw in thousandths
FineDraw(k) == (k * PerMille) \div RandDen

\* baseValues as the trend block of the loop leaves it (lines 710-741)
seedOfStep(p, cnt, metric, k, step, bv, acc) ==
    IF metric # NoMetric /\ step > 0
    THEN [bv EXCEPT ![metric] =
            formatNumber(trendValue(acc[step][metric], drawDirection(k), step,
                                    cnt, getReferenceRanges(p)[metric]))]
    ELSE bv

\* `generateBloodTest(patient, dates[i], baseValues)` of line 744
testOfStep(p, testDate, seeded, k) ==
    generateBloodTestWithId(p, testDate, seeded, [m \in Drawn(seeded) |-> k],
                            FineDraw(k))

\* the loop of generateBloodTestSeries (lines 708-767) from index step on,
\* every Math.random() of the series being k / RandDen; pushTest is the end
\* of the loop body: tests.push(test) and the copy into baseValues
RECURSIVE seriesLoop(_, _, _, _, _, _, _, _)
RECURSIVE pushTest(_, _, _, _, _, _, _, _)
pushTest(p, cnt, ds, metric, k, step, test, acc) ==
    seriesLoop(p, cnt, ds, metric, k, step + 1, nextBaseValues(test),
               Append(acc, test))

seriesLoop(p, cnt, ds, metric, k, step, bv, acc) ==
    IF step >= cnt
    THEN acc
    ELSE pushTest(p, cnt, ds, metric, k, step,
                  testOfStep(p, ds[step + 1],
                             seedOfStep(p, cnt, metric, k, step, bv, acc), k),
                  acc)

\* generateBloodTestSeries(patient, count, monthsRange, abnormalProbability)
\* called on day now, every Math.random() being k / RandDen
generateBloodTestSeries(p, cnt, months, probability, k, now) ==
    LET ds     == sortDates([n \in 1 .. cnt |-> dateInPastMonths(now, months, k)])
        metric == IF randomBoolean(probability, k)
                  THEN TrendMetrics[((k * Len(TrendMetrics)) \div RandDen) + 1]
                  ELSE NoMetric
    IN  seriesLoop(p, cnt, ds, metric, k, 0, EmptyMap, <<>>)

\* testCount of generatePatientData (lines 51-54)
testCountOf(cfg, k) ==
    ((k * (cfg.testsPerPatient.max - cfg.testsPerPatient.min + 1)) \div RandDen)
        + cfg.testsPerPatient.min

\* the PatientData object returned by generatePatientData (lines 67-72)
patientDataOf(p, ts, lab) ==
    [patient |-> p, tests |-> ts, label |-> lab.label,
     confidence |-> lab.confidence]

\* lines 65-72 of generatePatientData: the labelling of the series ts, which
\* reads the environment e
labelSeries(p, ts, e, k) ==
    patientDataOf(p, ts, determinePatientAbnormality(ts, e, k))

\* index.ts, generatePatientData(patient), every Math.random() being
\* k / RandDen: the series gets CONFIG's probability, the labelling reads the
\* environment e
generatePatientData(p, cfg, e, k, now) ==
    labelSeries(p,
                generateBloodTestSeries(p, testCountOf(cfg, k), cfg.timeRange,
                                        cfg.abnormalProbability, k, now),
                e, k)

\* path.join(CONFIG.outputDir, `patient-${patientId}.json`), the file name
patientFile(patientId) == "patient-" \o patientId \o ".json"

\* a variant of writeFile that leaves a file that is already there
writeFileOnce(files, name, content) ==
    [n \in (DOMAIN files) \cup {name} |->
        IF n \in DOMAIN files THEN files[n] ELSE content]

\* fs.writeFileSync(name, content): a file of that name is replaced
writeFile(files, name, content) ==
    [n \in (DOMAIN files) \cup {name} |-> IF n = name THEN content ELSE files[n]]

RECURSIVE TestsIn(_)
TestsIn(list) ==
    IF list = <<>> THEN 0 ELSE Len(Head(list).tests) + TestsIn(Tail(list))

\* a variant of the summary that counts the patients with an abnormal test
summaryOfFlagged(list, cfg, now) ==
    LET abnormalCount ==
            Len(SelectSeq(list, LAMBDA d :
                    \E n \in DOMAIN d.tests : d.tests[n].abnormalFlags.isAbnormal))
    IN  [totalPatients |-> Len(list),
         abnormalPatients |-> abnormalCount,
         normalPatients |-> Len(list) - abnormalCount,
         abnormalPercentage |-> [num |-> abnormalCount * 100, den |-> Len(list)],
         averageTestsPerPatient |-> [num |-> TestsIn(list), den |-> Len(list)],
         generatedAt |-> now,
         config |-> cfg]

\* the summary object of generateSummary (lines 94-108), built on day now; a
\* quotient is kept as numerator and denominator (0 / 0 is NaN)
summaryOf(list, cfg, now) ==
    LET abnormalCount == Len(SelectSeq(list, LAMBDA d : d.label = "ABNORMAL"))
    IN  [totalPatients |-> Len(list),
         abnormalPatients |-> abnormalCount,
         normalPatients |-> Len(list) - abnormalCount,
         abnormalPercentage |-> [num |-> abnormalCount * 100, den |-> Len(list)],
         averageTestsPerPatient |-> [num |-> TestsIn(list), den |-> Len(list)],
         generatedAt |-> now,
         config |-> cfg]

\* the draws of the patients of a dataset: no medical history, an id of one
\* character or of eight, an age of 52 or 85
DatasetPatientDraws ==
    {d \in PatientDraws : /\ d.gender = 0 /\ d.count = 0
                          /\ d.id # 0 /\ d.age # 0}

\* generatePatients(count) for the draws ds
generatePatients(cnt, ds) == [n \in 1 .. cnt |-> generatePatient(ds[n])]

\* the options tried on the command line
ArgvChoices ==
    {[patients |-> a, minTests |-> b, maxTests |-> c, months |-> d,
      abnormal |-> e, output |-> UnsetText, help |-> h] :
        a \in {EnvText(0), EnvText(2)},
        b \in {Unset, EnvText(0)},
        c \in {Unset, EnvText(2)},
        d \in {EnvText(0), EnvText(1)},
        e \in {Unset, EnvText(50), EnvText(150)},
        h \in BOOLEAN}

\* what the calling code of the README assigns: PATIENT_COUNT and
\* ABNORMAL_PROBABILITY
CallerChoices ==
    {[NoArgv EXCEPT !.patients = EnvText(a), !.abnormal = EnvText(40)] :
        a \in {1, 2}}

\* the environment the process is started in; MIN_TESTS=2 with MAX_TESTS=1
\* is a configuration outside the domain
InitialEnvs ==
    {[NoEnv EXCEPT !.PATIENT_COUNT = a, !.MIN_TESTS = b[1], !.MAX_TESTS = b[2],
                   !.GENERATE_SUMMARY = c] :
        a \in {Unset, EnvText(1), EnvText(2)},
        b \in {<<Unset, Unset>>, <<EnvText(1), EnvText(2)>>,
                <<EnvText(2), EnvText(1)>>},
        c \in {UnsetText, EnvText("false")}}

FunctionIdle ==
    /\ patient = NoPatient
    /\ count = 0
    /\ abnormalProbability = 30
    /\ dates = <<>>
    /\ hasAbnormalTrend = FALSE
    /\ abnormalMetric = NoMetric
    /\ i = 0
    /\ baseValues = EmptyMap
    /\ tests = <<>>
    /\ directions = <<>>
    /\ rnd = EmptyMap
    /\ labelRand = 0
    /\ result = NoResult

\* no function of the generator is being followed
GeneratorIdle == FunctionIdle /\ HeapIdle /\ StoreIdle

DatasetInit ==
    /\ GeneratorIdle
    /\ mode \in {"cli", "index", "import"}
    /\ argv \in CASE mode = "cli" -> ArgvChoices
                  [] mode = "import" -> CallerChoices
                  [] OTHER -> {NoArgv}
    /\ processEnv \in InitialEnvs
    /\ env \in {Unset, EnvText(100)}
    /\ CONFIG = NoConfig
    /\ exitCode = "running"
    /\ stderr = <<>>
    /\ fs = NoFiles
    /\ patients = <<>>
    /\ patientDataList = <<>>
    /\ calls = <<>>
    /\ clock = 0
    /\ drawLog = NoDraws
    /\ previous = NoRun
    /\ pc = "start"

\* the module body of index.ts runs: when index.ts is the program, when
\* cli.ts imports it (line 294, before main runs) and when other code does
ImportIndex ==
    /\ pc = "start"
    /\ CONFIG' = loadConfig(processEnv, env)
    /\ pc' = CASE mode = "cli" -> "main"
               [] mode = "import" -> "caller"
               [] OTHER -> "generateDataset"
    /\ UNCHANGED generatorVars
    /\ UNCHANGED <<env, mode, argv, processEnv, exitCode, stderr, fs, patients,
                   patientDataList, calls, clock, drawLog, previous>>

\* cli.ts, main: --help shows the help and returns
CliHelp ==
    /\ pc = "main"
    /\ parseArgs(argv).help
    /\ exitCode' = "0"
    /\ pc' = "exited"
    /\ UNCHANGED generatorVars
    /\ UNCHANGED <<env, mode, argv, processEnv, CONFIG, stderr, fs, patients,
                   patientDataList, calls, clock, drawLog, previous>>

\* cli.ts, main: validateArgs fails, process.exit(1)
CliReject ==
    /\ pc = "main"
    /\ ~parseArgs(argv).help
    /\ ~validateArgs(parseArgs(argv))
    /\ stderr' = Append(stderr, validationError(parseArgs(argv)))
    /\ exitCode' = "1"
    /\ pc' = "exited"
    /\ UNCHANGED generatorVars
    /\ UNCHANGED <<env, mode, argv, processEnv, CONFIG, fs, patients,
                   patientDataList, calls, clock, drawLog, previous>>

\* cli.ts, main: the arguments are written to process.env and
\* generateDataset is called
CliAccept ==
    /\ pc = "main"
    /\ ~parseArgs(argv).help
    /\ validateArgs(parseArgs(argv))
    /\ LET args == parseArgs(argv)
       IN  /\ processEnv' = [processEnv EXCEPT
                               !.PATIENT_COUNT = EnvText(args.patients),
                               !.MIN_TESTS = EnvText(args.minTests),
                               !.MAX_TESTS = EnvText(args.maxTests),
                               !.TIME_RANGE = EnvText(args.months),
                               !.OUTPUT_DIR = EnvText(args.output)]
           /\ env' = EnvText(args.abnormal)
    /\ pc' = "generateDataset"
    /\ UNCHANGED generatorVars
    /\ UNCHANGED <<mode, argv, CONFIG, exitCode, stderr, fs, patients,
                   patientDataList, calls, clock, drawLog, previous>>

\* README, Programmatic Usage: after the import the caller assigns
\* process.env.PATIENT_COUNT and process.env.ABNORMAL_PROBABILITY and calls
\* generateDataset
CallerSetsEnv ==
    /\ pc = "caller"
    /\ processEnv' = [processEnv EXCEPT !.PATIENT_COUNT = argv.patients]
    /\ env' = argv.abnormal
    /\ pc' = "generateDataset"
    /\ UNCHANGED generatorVars
    /\ UNCHANGED <<mode, argv, CONFIG, exitCode, stderr, fs, patients,
                   patientDataList, calls, clock, drawLog, previous>>

\* generateDataset, lines 126-137: ensureOutputDir and generatePatients.  A
\* run of more than MaxPatients patients is not followed.
GenerateDatasetStart ==
    /\ pc = "generateDataset"
    /\ CONFIG.patientCount <= MaxPatients
    /\ fs' = [fs EXCEPT !.dirs = @ \cup {CONFIG.outputDir}]
    /\ \E ds \in (IF previous.ran
                  THEN {drawLog.patients}
                  ELSE [1 .. CONFIG.patientCount -> DatasetPatientDraws]) :
          /\ patients' = generatePatients(CONFIG.patientCount, ds)
          /\ drawLog' = [drawLog EXCEPT !.patients = ds]
    /\ patientDataList' = <<>>
    /\ pc' = "patients"
    /\ UNCHANGED generatorVars
    /\ UNCHANGED <<env, mode, argv, processEnv, CONFIG, exitCode, stderr, calls,
                   clock, previous>>

\* one iteration of the loop of lines 139-148: generatePatientData,
\* savePatientData, push
ProcessPatient ==
    /\ pc = "patients"
    /\ Len(patientDataList) < Len(patients)
    /\ LET n == Len(patientDataList) + 1
       IN  \E k \in (IF previous.ran THEN {drawLog.data[n]} ELSE Fractions) :
              \E patientData \in {generatePatientData(patients[n], CONFIG, env,
                                                      k, clock)} :
                  /\ fs' = [fs EXCEPT !.files =
                              writeFile(@, patientFile(patients[n].patientId),
                                        patientData)]
                  /\ patientDataList' = Append(patientDataList, patientData)
                  /\ calls' = Append(calls,
                        [testCount |-> testCountOf(CONFIG, k),
                         monthsRange |-> CONFIG.timeRange,
                         seriesProbability |-> CONFIG.abnormalProbability,
                         labelProbability |-> envAbnormalProbability(env)])
                  /\ drawLog' = IF previous.ran
                                THEN drawLog
                                ELSE [drawLog EXCEPT !.data = Append(@, k)]
    /\ UNCHANGED generatorVars
    /\ UNCHANGED <<env, mode, argv, processEnv, CONFIG, exitCode, stderr,
                   patients, clock, previous, pc>>

\* generateDataset, lines 150-156: the summary, if CONFIG asks for it
FinishDataset ==
    /\ pc = "patients"
    /\ Len(patientDataList) = Len(patients)
    /\ fs' = IF CONFIG.generateSummary
             THEN [fs EXCEPT !.files =
                     writeFile(@, "summary.json",
                               summaryOf(patientDataList, CONFIG, clock))]
             ELSE fs
    /\ exitCode' = "0"
    /\ pc' = "done"
    /\ UNCHANGED generatorVars
    /\ UNCHANGED <<env, mode, argv, processEnv, CONFIG, stderr, patients,
                   patientDataList, calls, clock, drawLog, previous>>

DatasetNext ==
    \/ ImportIndex
    \/ CliHelp
    \/ CliReject
    \/ CliAccept
    \/ CallerSetsEnv
    \/ GenerateDatasetStart
    \/ ProcessPatient
    \/ FinishDataset

SpecDataset == DatasetInit /\ [][DatasetNext]_vars

----------------------------------------------------------------------------
(* index.ts run twice on the same Math.random() draws *)

RunsInit ==
    /\ GeneratorIdle
    /\ mode = "index"
    /\ argv = NoArgv
    /\ processEnv \in {[NoEnv EXCEPT !.PATIENT_COUNT = EnvText(a),
                                     !.MIN_TESTS = EnvText(1),
                                     !.MAX_TESTS = EnvText(2)] : a \in {1, 2}}
    /\ env \in {Unset, EnvText(100)}
    /\ CONFIG = NoConfig
    /\ exitCode = "running"
    /\ stderr = <<>>
    /\ fs = NoFiles
    /\ patients = <<>>
    /\ patientDataList = <<>>
    /\ calls = <<>>
    /\ clock = 0
    /\ drawLog = NoDraws
    /\ previous = NoRun
    /\ pc = "start"

\* index.ts is started again, on the same day or on the next one, in the
\* same environment (so with the same CONFIG), with an empty output directory
\* and a Math.random() that repeats the draws of the first run
RunAgain ==
    /\ pc = "done"
    /\ ~previous.ran
    /\ previous' = [ran |-> TRUE, files |-> fs.files, clock |-> clock]
    /\ clock' \in {clock, clock + 1}
    /\ fs' = NoFiles
    /\ patients' = <<>>
    /\ patientDataList' = <<>>
    /\ calls' = <<>>
    /\ exitCode' = "running"
    /\ pc' = "generateDataset"
    /\ UNCHANGED generatorVars
    /\ UNCHANGED <<env, mode, argv, processEnv, CONFIG, stderr, drawLog>>

RunsNext ==
    \/ ImportIndex
    \/ GenerateDatasetStart
    \/ ProcessPatient
    \/ FinishDataset
    \/ RunAgain

SpecRuns == RunsInit /\ [][RunsNext]_vars

----------------------------------------------------------------------------
(* bloodTestGenerator.ts: the objects behind referenceRanges.  A table      *)
(* object maps each metric to the address of a Range object; table          *)
(* addresses are the indices of heap.tables, Range addresses are pairs      *)
(* <<table that created it, metric>>.                                       *)

MaxHeld == 3

\* `baseRanges` of getReferenceRanges: the address of the module-level table
baseTableOf(gender) == IF gender = "M" THEN 1 ELSE 2

\* the objects after the module body has run: maleReferenceRanges at
\* address 1, femaleReferenceRanges at address 2, each with its own Ranges
ModuleHeap ==
    [tables |-> <<[m \in MetricSet |-> <<baseTableOf("M"), m>>],
                  [m \in MetricSet |-> <<baseTableOf("F"), m>>]>>,
     ranges |-> [a \in {baseTableOf("M"), baseTableOf("F")} \X MetricSet |->
                    IF a[1] = baseTableOf("M") THEN maleReferenceRanges[a[2]]
                                               ELSE femaleReferenceRanges[a[2]]]]

\* getReferenceRanges(patient) on the heap h: the reference it returns and
\* the heap afterwards.  Over 65 the object literal is a new table whose
\* hemoglobin and wbc are new Ranges and whose other entries are, by the
\* spread `...baseRanges`, the Range objects of the base table; otherwise the
\* base table itself is returned.
getReferenceRangesRef(p, h) ==
    LET baseRanges == baseTableOf(p.gender)
        fresh      == Len(h.tables) + 1
        hemoglobin == h.ranges[h.tables[baseRanges].hemoglobin]
        wbc        == h.ranges[h.tables[baseRanges].wbc]
    IN  IF p.age > 65
        THEN [ref  |-> fresh,
              heap |-> [tables |-> Append(h.tables,
                                      [h.tables[baseRanges] EXCEPT
                                          !.hemoglobin = <<fresh, "hemoglobin">>,
                                          !.wbc = <<fresh, "wbc">>]),
                        ranges |-> (<<fresh, "hemoglobin">> :>
                                        Rg(hemoglobin.min - D1(5),
                                           hemoglobin.max - D1(5)))
                                   @@ (<<fresh, "wbc">> :>
                                        Rg(wbc.min, wbc.max - D1(5)))
                                   @@ h.ranges]]
        ELSE [ref |-> baseRanges, heap |-> h]

\* the Ranges a holder of table address ref reads through it
rangesAt(h, ref) == [m \in MetricSet |-> h.ranges[h.tables[ref][m]]]

\* the metrics whose Range the code that holds a test writes to
WrittenMetrics == {"hemoglobin", "mcv"}

HeapInit ==
    /\ FunctionIdle
    /\ RunIdle
    /\ StoreIdle
    /\ env = Unset
    /\ pc = "module"
    /\ heap = ModuleHeap
    /\ held = <<>>

\* generateBloodTest(patient, ...): line 535 takes the reference
\* getReferenceRanges returns, line 665 stores that reference in the test
HeapGenerateBloodTest ==
    /\ Len(held) < MaxHeld
    /\ \E p \in Patients :
          \E r \in {getReferenceRangesRef(p, heap)} :
             /\ heap' = r.heap
             /\ held' = Append(held, [patientId |-> p.patientId,
                                      referenceRanges |-> r.ref])
    /\ UNCHANGED <<functionVars, runVars, storeVars, env, pc>>

\* the holder of test n changes it: test.referenceRanges[m].max = 0
WriteRange ==
    /\ \E n \in DOMAIN held : \E m \in WrittenMetrics :
          heap' = [heap EXCEPT
                      !.ranges[heap.tables[held[n].referenceRanges][m]].max = 0]
    /\ UNCHANGED <<functionVars, runVars, storeVars, env, pc, held>>

HeapNext == HeapGenerateBloodTest \/ WriteRange

SpecHeap == HeapInit /\ [][HeapNext]_vars

----------------------------------------------------------------------------
(* ui/stores/results.ts: the results store and the pages that call its      *)
(* effects.  A unit is an effect (fired when it is called), its .done or    *)
(* its .fail event, or the event clearResults.                              *)

MaxPending == 2

\* what predictAbnormality and getModelInfo resolve with, and the message
\* of the error they reject with
PredictionResponses == {"NORMAL", "ABNORMAL"}
ModelInfos == {"model-info"}
ErrorMessages == {"Network Error"}

\* $isLoading: the six .on handlers
isLoadingOn(state, unit) ==
    CASE unit \in {"submitTestFx", "getModelInfoFx"} -> TRUE
      [] unit \in {"submitTestFx.done", "submitTestFx.fail",
                   "getModelInfoFx.done", "getModelInfoFx.fail"} -> FALSE
      [] OTHER -> state

\* $error: the message of a failure, null again when an effect is called
errorOn(state, unit, payload) ==
    CASE unit \in {"submitTestFx.fail", "getModelInfoFx.fail"} -> payload
      [] unit \in {"submitTestFx", "getModelInfoFx"} -> "null"
      [] OTHER -> state

\* $predictionResults: the data of submitTestFx, null after clearResults
predictionResultsOn(state, unit, payload) ==
    CASE unit = "submitTestFx.done" -> payload
      [] unit = "clearResults" -> "null"
      [] OTHER -> state

\* $modelInfo: the data of getModelInfoFx
modelInfoOn(state, unit, payload) ==
    IF unit = "getModelInfoFx.done" THEN payload ELSE state

\* every store handles the unit that fired
Emit(unit, payload) ==
    /\ isLoading' = isLoadingOn(isLoading, unit)
    /\ error' = errorOn(error, unit, payload)
    /\ predictionResults' = predictionResultsOn(predictionResults, unit, payload)
    /\ modelInfo' = modelInfoOn(modelInfo, unit, payload)

StoreInit ==
    /\ FunctionIdle
    /\ RunIdle
    /\ HeapIdle
    /\ env = Unset
    /\ pc = "ui"
    /\ isLoading = FALSE
    /\ error = "null"
    /\ predictionResults = "null"
    /\ modelInfo = "null"
    /\ pending = NoPending
    /\ page = "test-entry"

\* TestEntry.tsx, handleSubmit up to its await: the submit button is
\* disabled while $isLoading is true
SubmitTest ==
    /\ page = "test-entry"
    /\ ~isLoading
    /\ pending.submitTestFx < MaxPending
    /\ Emit("submitTestFx", "null")
    /\ pending' = [pending EXCEPT !.submitTestFx = @ + 1]
    /\ UNCHANGED <<functionVars, runVars, heapVars, env, pc, page>>

\* a pending predictAbnormality resolves
SubmitTestDone ==
    /\ pending.submitTestFx > 0
    /\ \E r \in PredictionResponses : Emit("submitTestFx.done", r)
    /\ pending' = [pending EXCEPT !.submitTestFx = @ - 1]
    /\ UNCHANGED <<functionVars, runVars, heapVars, env, pc, page>>

\* a pending predictAbnormality rejects
SubmitTestFail ==
    /\ pending.submitTestFx > 0
    /\ \E msg \in ErrorMessages : Emit("submitTestFx.fail", msg)
    /\ pending' = [pending EXCEPT !.submitTestFx = @ - 1]
    /\ UNCHANGED <<functionVars, runVars, heapVars, env, pc, page>>

\* the router shows /results (navigate of handleSubmit, or the history of
\* the browser): ResultsPage mounts and its effect calls getModelInfoFx()
OpenResults ==
    /\ page = "test-entry"
    /\ pending.getModelInfoFx < MaxPending
    /\ page' = "results"
    /\ Emit("getModelInfoFx", "null")
    /\ pending' = [pending EXCEPT !.getModelInfoFx = @ + 1]
    /\ UNCHANGED <<functionVars, runVars, heapVars, env, pc>>

\* a pending getModelInfo resolves
GetModelInfoDone ==
    /\ pending.getModelInfoFx > 0
    /\ \E info \in ModelInfos : Emit("getModelInfoFx.done", info)
    /\ pending' = [pending EXCEPT !.getModelInfoFx = @ - 1]
    /\ UNCHANGED <<functionVars, runVars, heapVars, env, pc, page>>

\* a pending getModelInfo rejects
GetModelInfoFail ==
    /\ pending.getModelInfoFx > 0
    /\ \E msg \in ErrorMessages : Emit("getModelInfoFx.fail", msg)
    /\ pending' = [pending EXCEPT !.getModelInfoFx = @ - 1]
    /\ UNCHANGED <<functionVars, runVars, heapVars, env, pc, page>>

\* the router shows /test-entry again (a Link of ResultsPage, or the history)
OpenTestEntry ==
    /\ page = "results"
    /\ page' = "test-entry"
    /\ UNCHANGED <<functionVars, runVars, heapVars, env, pc, isLoading, error,
                   predictionResults, modelInfo, pending>>

\* the event clearResults fires
ClearResults ==
    /\ Emit("clearResults", "null")
    /\ UNCHANGED <<functionVars, runVars, heapVars, env, pc, pending, page>>

StoreNext ==
    \/ SubmitTest
    \/ SubmitTestDone
    \/ SubmitTestFail
    \/ OpenResults
    \/ GetModelInfoDone
    \/ GetModelInfoFail
    \/ OpenTestEntry
    \/ ClearResults

SpecStore == StoreInit /\ [][StoreNext]_vars

----------------------------------------------------------------------------
(* Properties of one blood test *)

FlaggedMetrics(t) == {m \in MetricSet : t.abnormalFlags[m]}
FourMetrics == {"hemoglobin", "wbc", "platelets", "hematocrit"}
OtherMetrics == MetricSet \ FourMetrics

\* C1: in every generated test each of the 13 per-metric flags equals
\* (value < range.min or value > range.max) on the value and the range stored
\* in that test; a value equal to range.min or range.max is not flagged.
C1_FlagsMatchStoredRange ==
    \A n \in DOMAIN tests : \A m \in MetricSet :
        LET t == tests[n]
        IN  /\ t.abnormalFlags[m] <=> (t[m] < t.referenceRanges[m].min
                                       \/ t[m] > t.referenceRanges[m].max)
            /\ (t[m] = t.referenceRanges[m].min \/ t[m] = t.referenceRanges[m].max)
                  => ~t.abnormalFlags[m]

\* C1 witness: a returned test with a value on the lower end of its range and
\* a value on the upper end of its range, neither flagged
C1_Witness ==
    /\ pc = "returned"
    /\ \E a, b \in MetricSet :
          /\ tests[1][a] = tests[1].referenceRanges[a].min
          /\ tests[1][b] = tests[1].referenceRanges[b].max
          /\ ~tests[1].abnormalFlags[a]
          /\ ~tests[1].abnormalFlags[b]

\* C2: in every generated test isAbnormal is true iff at least 2 of the 13
\* per-metric flags are true.
C2_AbnormalIffTwoFlags ==
    \A n \in DOMAIN tests :
        tests[n].abnormalFlags.isAbnormal
            <=> Cardinality(FlaggedMetrics(tests[n])) >= 2

\* C2 witness: a returned test with exactly two flagged metrics
C2_Witness ==
    /\ pc = "returned"
    /\ Cardinality(FlaggedMetrics(tests[1])) = 2
    /\ tests[1].abnormalFlags.isAbnormal

\* the other nine metrics replaced: all below their range, all on the lower
\* end of their range, or one below and the rest on the lower end
AltOthers(p) ==
    LET low(m)    == SeedValue(p, m, 1)
        inside(m) == getReferenceRanges(p)[m].min
    IN  {[m \in OtherMetrics |-> low(m)], [m \in OtherMetrics |-> inside(m)]}
        \cup {[m \in OtherMetrics |-> IF m = x THEN low(m) ELSE inside(m)] :
                 x \in OtherMetrics}

\* C3: abnormalConfidence depends only on hemoglobin, wbc, platelets and
\* hematocrit: a test of the same patient with the same four values and any
\* other nine values has the same abnormalConfidence, and a test in which
\* none of the four is flagged has abnormalConfidence 0 whatever isAbnormal is.
C3_ConfidenceReadsFourMetrics ==
    pc = "returned" =>
        LET t    == tests[1]
            four == [m \in FourMetrics |-> t[m]]
        IN  /\ \A alt \in AltOthers(patient) :
                  generateBloodTest(patient, 0, four @@ alt,
                                    [m \in MetricSet |-> MidFraction])
                      .abnormalFlags.abnormalConfidence
                  = t.abnormalFlags.abnormalConfidence
            /\ (FlaggedMetrics(t) \cap FourMetrics = {})
                  => t.abnormalFlags.abnormalConfidence = 0

\* C3 witness: three flagged metrics, none among the four: abnormal with
\* confidence 0
C3_Witness ==
    /\ pc = "returned"
    /\ Cardinality(FlaggedMetrics(tests[1])) >= 3
    /\ FlaggedMetrics(tests[1]) \cap FourMetrics = {}
    /\ tests[1].abnormalFlags.isAbnormal
    /\ tests[1].abnormalFlags.abnormalConfidence = 0

\* min(0.5 + distanceFromRange, 1.0) as the claim states it
ClaimedMetricConfidence(value, range) ==
    LET width == range.max - range.min
        dist  == Max(range.min - value, value - range.max)
    IN  IF width + 2 * dist >= 2 * width
        THEN Frac(1, 1)
        ELSE Frac(width + 2 * dist, 2 * width)

RECURSIVE ClaimedSum(_, _)
ClaimedSum(S, t) ==
    IF S = {}
    THEN FracZero
    ELSE LET m == CHOOSE x \in S : TRUE
         IN  FracAdd(ClaimedMetricConfidence(t[m], t.referenceRanges[m]),
                     ClaimedSum(S \ {m}, t))

\* C4: abnormalConfidence is the mean, rounded to 2 decimals, of
\* min(0.5 + distanceFromRange, 1.0) over exactly the flagged ones of
\* hemoglobin, wbc, platelets, hematocrit, and 0 when none of them is flagged.
C4_ConfidenceIsMeanOverFlaggedFour ==
    \A n \in DOMAIN tests :
        LET t == tests[n]
            F == FlaggedMetrics(t) \cap FourMetrics
        IN  t.abnormalFlags.abnormalConfidence =
                IF F = {} THEN 0
                ELSE formatQuotient(ClaimedSum(F, t), Cardinality(F))

\* C4 witness: two of the four flagged, one of them capped at 1.0 and one
\* not, so that the mean lies strictly between 0.5 and 1.0
C4_Witness ==
    /\ pc = "returned"
    /\ Cardinality(FlaggedMetrics(tests[1]) \cap FourMetrics) = 2
    /\ tests[1].abnormalFlags.abnormalConfidence > 50 * Cent
    /\ tests[1].abnormalFlags.abnormalConfidence < 100 * Cent

\* the stored form of a supplied number: formatNumber, Math.round for platelets
StoredForm(m, x) == IF m = "platelets" THEN MathRound(x) ELSE formatNumber(x)

\* C8 (as claimed): every metric for which baseValues supplies a number, zero
\* included, is returned as that number (after rounding) and no random draw
\* is made for it.
C8_SeedUsedVerbatim ==
    pc = "returned" =>
        \A m \in DOMAIN baseValues :
            /\ tests[1][m] = StoredForm(m, baseValues[m])
            /\ m \notin DOMAIN rnd

----------------------------------------------------------------------------
(* Properties of a test series *)

Trending == hasAbnormalTrend /\ abnormalMetric # NoMetric

TargetRange == getReferenceRanges(patient)[abnormalMetric]

\* the direction drawn for the final test of the series
FinalDirection == directions[Len(directions)]

\* C5 (as claimed): in a trending series of length >= 5 the target metric of
\* the final test is >= range.max * 1.1 when the direction is high and
\* <= range.min * 0.9 when it is low (the direction being the one drawn for
\* the final test).
C5_FinalValueBeyondScaledBound ==
    (pc = "returned" /\ Trending /\ count >= 5) =>
        /\ FinalDirection = 1
              => tests[count][abnormalMetric] >= Times1_1(TargetRange.max)
        /\ FinalDirection = -1
              => tests[count][abnormalMetric] <= Times0_9(TargetRange.min)

\* C5 (amended): in a trending series of length >= 5 the target metric of the
\* final test is >= range.max * 1.1 rounded to two decimals when the direction
\* drawn for the final test is high, and <= range.min * 0.9 rounded to two
\* decimals when it is low.
C5_FinalValueBeyondRoundedBound ==
    (pc = "returned" /\ Trending /\ count >= 5) =>
        /\ FinalDirection = 1
              => tests[count][abnormalMetric] >= formatNumber(Times1_1(TargetRange.max))
        /\ FinalDirection = -1
              => tests[count][abnormalMetric] <= formatNumber(Times0_9(TargetRange.min))

\* C5 witness: a returned trending series of five tests whose final direction
\* is high and whose final value is the rounded bound although test 0 was
\* below the range
C5_Witness ==
    /\ pc = "returned" /\ Trending /\ count >= 5
    /\ FinalDirection = 1
    /\ tests[1][abnormalMetric] < TargetRange.min
    /\ tests[count][abnormalMetric] = formatNumber(Times1_1(TargetRange.max))

\* C6 (as claimed): the direction is chosen once per series: the target
\* metric never moves high at one step and low at another.
C6_DirectionChosenOnce ==
    \A a, b \in DOMAIN directions : directions[a] = directions[b]

\* C7: in a series with a trend every metric other than the target metric
\* has, in every test after the first, exactly the value of the test before.
C7_NonTargetMetricsCopied ==
    Trending =>
        \A n \in DOMAIN tests : \A m \in MetricSet \ {abnormalMetric} :
            n > 1 => tests[n][m] = tests[n - 1][m]

\* C7 witness: a returned trending series of at least three tests in which
\* the target metric did change
C7_Witness ==
    /\ pc = "returned" /\ Trending /\ count >= 3
    /\ tests[2][abnormalMetric] # tests[1][abnormalMetric]
    /\ tests[3][abnormalMetric] # tests[2][abnormalMetric]

\* C9: generateBloodTestSeries(patient, count, ...) with count >= 1 returns
\* exactly count tests, each with patient.patientId, with non-decreasing
\* testDate; equal dates are kept.
C9_CountTestsInDateOrder ==
    pc = "returned" =>
        /\ Len(tests) = count
        /\ \A n \in DOMAIN tests : tests[n].patientId = patient.patientId
        /\ \A n \in DOMAIN tests :
              n > 1 => tests[n - 1].testDate <= tests[n].testDate

\* C9 witness: a returned series with two tests on the same date and a later
\* test
C9_Witness ==
    /\ pc = "returned" /\ count >= 3
    /\ Len(tests) = count
    /\ tests[1].testDate = tests[2].testDate
    /\ tests[2].testDate < tests[3].testDate

----------------------------------------------------------------------------
(* Properties of the patient label *)

AbnormalTestCount == Cardinality({n \in DOMAIN tests : tests[n].abnormalFlags.isAbnormal})

\* hasAbnormalTests as the claim states it: abnormal share >= 0.3, or some
\* test with abnormalConfidence > 0.8
ClaimedHasAbnormalTests ==
    \/ Len(tests) > 0 /\ 100 * AbnormalTestCount >= 30 * Len(tests)
    \/ \E n \in DOMAIN tests : tests[n].abnormalFlags.abnormalConfidence > 80 * Cent

\* the Bernoulli(abnormalProbability) trial of the labelling succeeded
TrialSucceeded == labelRand * 100 < envAbnormalProbability(env) * RandDen

AbnormalConfidenceTotal ==
    SumOfConfidence(SelectSeq(tests, LAMBDA t : t.abnormalFlags.isAbnormal))

\* the confidence the label stands on: the returned one for ABNORMAL, one
\* minus the returned one for NORMAL
ReturnedAvgConfidence ==
    IF result.label = "ABNORMAL" THEN result.confidence
                                 ELSE Unit - result.confidence

\* C11 as stated: the returned confidence is avgConfidence (ABNORMAL) or
\* 1 - avgConfidence (NORMAL), avgConfidence being the mean itself of
\* abnormalConfidence over the abnormal tests (0 if none), and lies in [0, 1].
C11_ConfidenceFromExactMean ==
    pc = "labelled" =>
        /\ IF AbnormalTestCount = 0
           THEN ReturnedAvgConfidence = 0
           ELSE AbnormalTestCount * ReturnedAvgConfidence = AbnormalConfidenceTotal
        /\ result.confidence >= 0 /\ result.confidence <= Unit

\* C11 (amended): the returned confidence is avgConfidence for ABNORMAL and
\* 1 - avgConfidence for NORMAL, where avgConfidence is the mean of
\* abnormalConfidence over the abnormal tests rounded to 2 decimals (the
\* nearest hundredth, a tie going up; 0 if there are none); it lies in [0, 1].
C11_ConfidenceFromRoundedMean ==
    pc = "labelled" =>
        /\ IF AbnormalTestCount = 0
           THEN ReturnedAvgConfidence = 0
           ELSE LET d == AbnormalTestCount * ReturnedAvgConfidence
                         - AbnormalConfidenceTotal
                IN  /\ ReturnedAvgConfidence % Cent = 0
                    /\ 2 * d <= AbnormalTestCount * Cent
                    /\ 2 * d > -(AbnormalTestCount * Cent)
        /\ result.confidence >= 0 /\ result.confidence <= Unit

\* C11 witness: two abnormal tests of confidence 0.8 and 0.81 (mean 0.805),
\* labelled NORMAL with confidence 1 - 0.81
C11_Witness ==
    /\ pc = "labelled"
    /\ AbnormalTestCount = 2
    /\ AbnormalConfidenceTotal = 161 * Cent
    /\ result.label = "NORMAL"
    /\ result.confidence = Unit - 81 * Cent

----------------------------------------------------------------------------
(* Properties of the reference ranges *)

\* the ages generatePatient produces: randomIntInRange(18, 85)
PatientAges == 18 .. 85

\* C12: the ranges resolved for two patients of the same gender, one older
\* than 65 and one not (65 is not adjusted, 66 is), differ only in
\* hemoglobin.min, hemoglobin.max and wbc.max, each lower by exactly 0.5 for
\* the older one; wbc.min and the ranges of the other 11 metrics are the same.
\* The ranges stored in the generated test are compared with those of every
\* patient of the same gender on the other side of the age boundary.
C12_OnlyHemoglobinAndWbcMaxShift ==
    pc = "returned" =>
        \A a \in PatientAges :
            LET other == getReferenceRanges([patient EXCEPT !.age = a])
                mine  == tests[1].referenceRanges
                old   == IF a > 65 THEN other ELSE mine
                young == IF a > 65 THEN mine ELSE other
            IN  ((a > 65) # (patient.age > 65)) =>
                    /\ old.hemoglobin.min = young.hemoglobin.min - D1(5)
                    /\ old.hemoglobin.max = young.hemoglobin.max - D1(5)
                    /\ old.wbc.max = young.wbc.max - D1(5)
                    /\ old.wbc.min = young.wbc.min
                    /\ \A m \in MetricSet \ {"hemoglobin", "wbc"} :
                          old[m] = young[m]

\* C12 witness: a test generated for the man of 66, whose stored ranges carry
\* the adjusted bounds 13.0 .. 17.0 (hemoglobin) and 4.5 .. 10.5 (wbc)
C12_Witness ==
    /\ pc = "returned"
    /\ patient.age = 66 /\ patient.gender = "M"
    /\ tests[1].referenceRanges.hemoglobin = Rg(D0(13), D0(17))
    /\ tests[1].referenceRanges.wbc = Rg(D1(45), D1(105))

----------------------------------------------------------------------------
(* Properties of a generated patient *)

\* C13: the medicalHistory of every patient returned by generatePatient is
\* non-empty and is either exactly <<"None">> or holds at most 5 pairwise
\* distinct condition names, none of them "None".
C13_HistoryNoneOrDistinctConditions ==
    pc \in {"patient", "returned"} =>
        LET h == patient.medicalHistory
        IN  /\ Len(h) > 0
            /\ \/ h = <<"None">>
               \/ /\ Len(h) <= 5
                  /\ \A a, b \in DOMAIN h : a # b => h[a] # h[b]
                  /\ \A a \in DOMAIN h : h[a] # "None"

\* C13 witness: conditionCount is 5, the first index is drawn twice and one
\* draw hits "None": four distinct conditions
C13_Witness ==
    /\ pc = "patient"
    /\ conditionCountOf(patient.age, rnd.count) = 5
    /\ rnd.index[1] = rnd.index[2]
    /\ \E n \in DOMAIN rnd.index : rnd.index[n] = PerMille - 1
    /\ Len(patient.medicalHistory) = 4

\* C20: generateId(prefix, length) returns the prefix, a dash and exactly
\* `length` base-36 characters whatever the random fraction is: a patientId
\* is "P-" and 8 characters, a testId is "T-" and 10 characters.
C20_IdOfExactLength ==
    /\ pc \in {"patient", "returned"} => Len(patient.patientId) = 2 + 8
    /\ pc = "returned" => Len(tests[1].testId) = 2 + 10

----------------------------------------------------------------------------
(* Properties of the command line and of generateDataset *)

\* the arguments are out of range in one of the ways the claim lists
InvalidArgs ==
    LET args == parseArgs(argv)
    IN  \/ args.patients < 1
        \/ args.minTests < 1
        \/ args.maxTests < args.minTests
        \/ args.months < 1
        \/ args.abnormal < 0
        \/ args.abnormal > 100

\* generateDataset has been called
GenerationBegun == pc \in {"generateDataset", "patients", "done"}

\* C15 as stated: a CLI run whose arguments are out of range prints an error
\* and exits with failure before generateDataset is called, and makes no
\* output directory and no file.
C15_InvalidArgsRejected ==
    (mode = "cli" /\ InvalidArgs) =>
        /\ ~GenerationBegun
        /\ fs = NoFiles
        /\ pc = "exited" => (exitCode = "1" /\ stderr # <<>>)

\* C15 (amended): a CLI run without --help whose arguments are out of range
\* prints an error and exits with failure before generateDataset is called;
\* with --help it shows the help and ends without error; in both cases
\* generateDataset is not called and no output directory or file is made.
C15_InvalidArgsRejectedUnlessHelp ==
    (mode = "cli" /\ InvalidArgs) =>
        /\ ~GenerationBegun
        /\ fs = NoFiles
        /\ pc = "exited" =>
              IF argv.help THEN exitCode = "0" /\ stderr = <<>>
                           ELSE exitCode = "1" /\ stderr # <<>>

\* C15 witness: maxTests 2 below the default minTests 3, everything else in
\* range, no --help: exit code 1 and an error
C15_Witness ==
    /\ mode = "cli" /\ pc = "exited"
    /\ ~argv.help
    /\ parseArgs(argv).patients >= 1 /\ parseArgs(argv).minTests >= 1
    /\ parseArgs(argv).months >= 1
    /\ parseArgs(argv).abnormal >= 0 /\ parseArgs(argv).abnormal <= 100
    /\ parseArgs(argv).maxTests < parseArgs(argv).minTests
    /\ exitCode = "1" /\ Len(stderr) = 1
    /\ fs = NoFiles

\* C16: what is supplied takes effect: after a CLI run with --patients N, or
\* after import, PATIENT_COUNT = N and the call, exactly N patients have been
\* generated, and the test counts, the months and the abnormal probability
\* used are the supplied ones.
C16_SuppliedConfigurationUsed ==
    (pc = "done" /\ mode \in {"cli", "import"}) =>
        LET args == parseArgs(argv)
        IN  /\ Len(patientDataList) = args.patients
            /\ \A n \in DOMAIN calls :
                  /\ calls[n].seriesProbability = args.abnormal
                  /\ calls[n].labelProbability = args.abnormal
                  /\ mode = "cli" =>
                        /\ calls[n].testCount >= args.minTests
                        /\ calls[n].testCount <= args.maxTests
                        /\ calls[n].monthsRange = args.months

\* C17: for every patient of a generateDataset run the probability the
\* labelling decides with is the one passed to generateBloodTestSeries.
C17_LabelUsesSeriesProbability ==
    \A n \in DOMAIN calls :
        calls[n].labelProbability = calls[n].seriesProbability

PatientFiles == (DOMAIN fs.files) \ {"summary.json"}

LastWithId(n) ==
    CHOOSE m \in DOMAIN patients :
        /\ patients[m].patientId = patients[n].patientId
        /\ \A o \in DOMAIN patients :
              patients[o].patientId = patients[n].patientId => o <= m

C19_SummaryAfterAllPatients ==
    "summary.json" \in DOMAIN fs.files =>
        /\ CONFIG.generateSummary
        /\ pc = "done"
        /\ Len(patientDataList) = Len(patients)
        /\ \A n \in DOMAIN patients :
              patientFile(patients[n].patientId) \in DOMAIN fs.files
        /\ LET summary == fs.files["summary.json"]
           IN  /\ summary.totalPatients = Len(patients)
               /\ summary.abnormalPatients =
                     Cardinality({n \in DOMAIN patientDataList :
                                     patientDataList[n].label = "ABNORMAL"})
               /\ summary.abnormalPatients + summary.normalPatients
                     = summary.totalPatients

\* C19 witness: a summary of two patients, one labelled ABNORMAL and one
\* labelled NORMAL although it has an abnormal test
C19_Witness ==
    /\ pc = "done"
    /\ "summary.json" \in DOMAIN fs.files
    /\ fs.files["summary.json"].totalPatients = 2
    /\ fs.files["summary.json"].abnormalPatients = 1
    /\ \E n \in DOMAIN patientDataList :
          /\ patientDataList[n].label = "NORMAL"
          /\ \E t \in DOMAIN patientDataList[n].tests :
                patientDataList[n].tests[t].abnormalFlags.isAbnormal

\* the files without what is read from the clock: the testDate of every
\* test and the generatedAt of the summary
WithoutClock(files) ==
    [name \in DOMAIN files |->
        IF name = "summary.json"
        THEN [files[name] EXCEPT !.generatedAt = 0]
        ELSE [files[name] EXCEPT !.tests =
                [t \in DOMAIN @ |-> [@[t] EXCEPT !.testDate = 0]]]]

\* a second run on the draws and the configuration of the first has ended
SecondRunDone == pc = "done" /\ previous.ran

\* C14 as stated: two runs with the same sequence of random draws and the
\* same configuration produce the same output.
C14_SameDrawsSameOutput ==
    SecondRunDone => fs.files = previous.files

\* C14 (amended): two runs with the same sequence of random draws and the
\* same configuration produce output that is the same but for the testDate
\* of the tests and the generatedAt of the summary, which are computed from
\* the clock; read on the same day the whole output is the same.
C14_SameDrawsSameOutputButDates ==
    SecondRunDone =>
        /\ WithoutClock(fs.files) = WithoutClock(previous.files)
        /\ clock = previous.clock => fs.files = previous.files

\* C14 witness: the second run of two patients ends a day after the first
\* and its files differ from those of the first
C14_Witness ==
    /\ SecondRunDone
    /\ Len(patients) = 2
    /\ clock # previous.clock
    /\ fs.files # previous.files
    /\ DOMAIN fs.files = DOMAIN previous.files

----------------------------------------------------------------------------
(* Further properties of a test series *)

\* the factor as claimed: 0.05, 0.10, 0.15 and 0.15 from then on (hundredths)
ClaimedTrendFactor(step) ==
    CASE step = 1 -> 5
      [] step = 2 -> 10
      [] OTHER -> 15

\* previous value times (1 + factor) or (1 - factor)
ClaimedTrendValue(prevValue, direction, step) ==
    (prevValue * (100 + direction * ClaimedTrendFactor(step))) \div 100

\* the value test 0 draws for metric m from the Math.random() draw k
FirstDraw(m, k) ==
    StoredForm(m, randomInRange(getReferenceRanges(patient)[m].min - DrawPad[m].lo,
                                getReferenceRanges(patient)[m].max + DrawPad[m].hi,
                                k))

\* C23: in a trending series, for every test index i with 1 <= i < count - 2
\* the target metric equals the previous test's value times
\* (1 + 0.05 * min(i, 3)) for the high direction or (1 - 0.05 * min(i, 3)) for
\* the low one, rounded to two decimals (to an integer for platelets); the
\* factor is 0.05, 0.10, 0.15 for i = 1, 2, 3 and 0.15 afterwards; test 0 is
\* the plain draw, the trend does not touch it.
C23_TrendFactorRampsThenPlateaus ==
    Trending =>
        /\ Len(tests) = 1 =>
               tests[1][abnormalMetric] = FirstDraw(abnormalMetric, rnd[abnormalMetric])
        /\ \A n \in DOMAIN tests :
               (n > 1 /\ n - 1 < count - 2) =>
                   tests[n][abnormalMetric] =
                       StoredForm(abnormalMetric,
                                  formatNumber(ClaimedTrendValue(
                                      tests[n - 1][abnormalMetric],
                                      directions[n - 1], n - 1)))

\* C23 witness: a returned trending series of seven tests whose step i = 4
\* lies before the final clamp and raised the target metric by 15 per cent,
\* while step i = 1 lowered it by 5 per cent
C23_Witness ==
    /\ pc = "returned" /\ Trending /\ count = 7
    /\ directions[4] = 1 /\ directions[1] = -1
    /\ tests[5][abnormalMetric] # tests[4][abnormalMetric]
    /\ tests[5][abnormalMetric] =
           StoredForm(abnormalMetric,
                      formatNumber((tests[4][abnormalMetric] * 115) \div 100))
    /\ tests[2][abnormalMetric] =
           StoredForm(abnormalMetric,
                      formatNumber((tests[1][abnormalMetric] * 95) \div 100))

\* the metrics left out of the list of trend targets
NeverTargets == {"monocytes", "eosinophils", "basophils"}

\* C24: the trend target is never monocytes, eosinophils or basophils: in
\* every series (with a trend or without, of any count) each of the three has
\* the same value in all tests.
C24_ThreeMetricsNeverTrend ==
    /\ abnormalMetric \notin NeverTargets
    /\ \A n \in DOMAIN tests : \A m \in NeverTargets :
           tests[n][m] = tests[1][m]

\* C24 witness: a returned trending series on lymphocytes, the last metric of
\* the list, that moved in both of its steps
C24_Witness ==
    /\ pc = "returned" /\ Trending /\ count >= 3
    /\ abnormalMetric = "lymphocytes"
    /\ tests[2].lymphocytes # tests[1].lymphocytes
    /\ tests[3].lymphocytes # tests[2].lymphocytes
    /\ \A m \in NeverTargets : tests[3][m] = tests[1][m]

\* C25 (as claimed): in every trending series of at least two tests the last
\* test has isAbnormal = true, whatever values test 0 drew.
C25_SeriesEndsAbnormal ==
    (pc = "returned" /\ Trending /\ count >= 2) =>
        tests[count].abnormalFlags.isAbnormal

----------------------------------------------------------------------------
(* Further properties of one test and of the label *)

\* C26: for every test returned by generateBloodTest, abnormalConfidence is
\* exactly 0 or lies in [0.5, 1.0].
C26_ConfidenceZeroOrAtLeastHalf ==
    pc = "returned" =>
        \/ tests[1].abnormalFlags.abnormalConfidence = 0
        \/ /\ tests[1].abnormalFlags.abnormalConfidence >= 50 * Cent
           /\ tests[1].abnormalFlags.abnormalConfidence <= 100 * Cent

\* C26 witness: a returned test with exactly one flag among the four metrics
\* of the confidence, whose confidence lies strictly between 0.5 and 0.75
C26_Witness ==
    /\ pc = "returned"
    /\ Cardinality(FlaggedMetrics(tests[1]) \cap FourMetrics) = 1
    /\ tests[1].abnormalFlags.abnormalConfidence > 50 * Cent
    /\ tests[1].abnormalFlags.abnormalConfidence < 75 * Cent

\* the number of tests of the series that are abnormal
AbnormalInSeries ==
    Cardinality({n \in DOMAIN tests : tests[n].abnormalFlags.isAbnormal})

\* C27: in a series without a trend every test has the thirteen metric
\* values, the flags, isAbnormal and abnormalConfidence of test 0, so the
\* share of abnormal tests is 0 or 1.
C27_PlainSeriesRepeatsFirstTest ==
    ~hasAbnormalTrend =>
        /\ \A n \in DOMAIN tests :
               /\ \A m \in MetricSet : tests[n][m] = tests[1][m]
               /\ tests[n].abnormalFlags = tests[1].abnormalFlags
        /\ AbnormalInSeries \in {0, Len(tests)}

\* C27 witness: a returned series without a trend, of three tests or more,
\* whose test 0 is abnormal with a confidence above 0
C27_Witness ==
    /\ pc = "returned" /\ ~hasAbnormalTrend /\ count >= 3
    /\ tests[1].abnormalFlags.isAbnormal
    /\ tests[1].abnormalFlags.abnormalConfidence > 0
    /\ AbnormalInSeries = count

\* no test of the list is abnormal and none has a confidence above 0.8
NothingAbnormal ==
    \A n \in DOMAIN tests :
        /\ ~tests[n].abnormalFlags.isAbnormal
        /\ tests[n].abnormalFlags.abnormalConfidence <= 80 * Cent

\* C28: determinePatientAbnormality is total: for every list of tests, the
\* empty one included, it returns a label NORMAL or ABNORMAL and a numeric
\* confidence; for a list with no abnormal test and no confidence above 0.8
\* (the empty list included) it returns NORMAL with confidence exactly 1.
C28_LabelTotalAndNormalWithoutAbnormal ==
    pc = "labelled" =>
        /\ result.label \in {"NORMAL", "ABNORMAL"}
        /\ result.confidence \in 0 .. Unit
        /\ NothingAbnormal => result = [label |-> "NORMAL", confidence |-> Unit]

\* C28 witness: the empty list was labelled NORMAL with confidence 1 although
\* the random trial succeeded
C28_Witness ==
    /\ pc = "labelled" /\ tests = <<>>
    /\ randomBoolean(envAbnormalProbability(env), labelRand)
    /\ result = [label |-> "NORMAL", confidence |-> Unit]

\* C29 (as claimed): whenever the label is ABNORMAL the confidence is
\* greater than 0.
C29_AbnormalHasPositiveConfidence ==
    (pc = "labelled" /\ result.label = "ABNORMAL") => result.confidence > 0

----------------------------------------------------------------------------
(* Further properties of generateDataset and of the objects of a test *)

\* the configuration is inside the domain the specification requires
ConfigInDomain(cfg) ==
    /\ cfg.patientCount >= 1
    /\ cfg.testsPerPatient.min >= 1
    /\ cfg.testsPerPatient.max >= cfg.testsPerPatient.min
    /\ cfg.timeRange >= 1
    /\ cfg.abnormalProbability >= 0
    /\ cfg.abnormalProbability <= 100

\* C22 (as claimed): whenever generateDataset generates patients the
\* configuration it uses has patientCount >= 1, minTests >= 1,
\* maxTests >= minTests, timeRange >= 1 and 0 <= abnormalProbability <= 1:
\* values outside the domain, from the command line or from the environment,
\* are rejected with an error instead of being used.
C22_ConfigurationInDomain ==
    GenerationBegun => ConfigInDomain(CONFIG)

\* C21 (as claimed): each test holds its own copy of the reference range
\* set: the referenceRanges of a test is not the object of another test nor
\* a module-level table, no Range object of a test belongs to another test
\* or to a module-level table, and so no change made through one test
\* reaches a module-level table.
C21_RangesCopiedIntoEachTest ==
    /\ \A n \in DOMAIN held :
           /\ held[n].referenceRanges \notin {baseTableOf("M"), baseTableOf("F")}
           /\ \A m \in MetricSet :
                  heap.tables[held[n].referenceRanges][m][1] = held[n].referenceRanges
    /\ \A n, k \in DOMAIN held :
           n # k => held[n].referenceRanges # held[k].referenceRanges
    /\ rangesAt(heap, baseTableOf("M")) = maleReferenceRanges
    /\ rangesAt(heap, baseTableOf("F")) = femaleReferenceRanges

----------------------------------------------------------------------------
(* Property of the results store of the UI *)

\* C30 (as claimed): $isLoading is true at every moment at which a call of
\* submitTestFx or of getModelInfoFx is pending, under every interleaving of
\* the start, done and fail events of the two effects, and false once none
\* is pending.
C30_LoadingWhilePending ==
    isLoading <=> (pending.submitTestFx + pending.getModelInfoFx > 0)

====
